---- MODULE Spec2Model ----
(***************************************************************************)
(* Model of the classroom session server (backend/server.js): one global   *)
(* appState, mutated by the socket.io event handlers registered for every  *)
(* connection.  Node runs each handler to completion, so each handler is    *)
(* one atomic action.  `out` is the list of emit calls made by the handler *)
(* that ran last, in program order, each with the set of sockets that      *)
(* receive it; `last` records which event that handler processed.          *)
(* ClientSpec adds one browser (the React components App and Classroom and *)
(* their socket.io-client socket) joining through the server: the events   *)
(* the server emits to that socket travel in `inbox` and are dispatched to *)
(* the listeners registered on the socket at the time they arrive.         *)
(* Nothing in server.js catches an exception, so a handler that throws     *)
(* ends the Node process: `running` is then false for good.                *)
(***************************************************************************)
EXTENDS FiniteSets, Integers, Sequences, TLC

\* ---------------------------------------------------------------- bounds
MaxConns == 2
MaxChat  == 2
MaxClock == 1
MaxInbox == 1   \* events in flight to the browser
MaxOutbox == 1  \* packets in flight from the browser
MaxEmits == 3   \* packets Classroom emits on one socket
MaxPeerEvents == 2   \* events of peers the server handles beside a browser
MaxClientClock == 0  \* clock readings while a browser takes part

\* ------------------------------------------------------------- constants
NoConn == 0                 \* appState.admin: null
AdminCode == "teach123"     \* appState.adminCode
WrongCode == "wrong"        \* some adminCode other than appState.adminCode
NoCode    == "undefined"    \* join_room / set_admin payload without adminCode

Conns  == 1..MaxConns       \* socket ids; an id is never reused
Codes  == {AdminCode, WrongCode, NoCode}
Names  == {"Alice"}
Bodies == {"hi"}
Times  == 0..MaxClock      \* values Date.now() returns
ClientTimes == 0..MaxClientClock

\* room name used by socket.join / io.to / socket.to
ClassroomRoom == -1


VARIABLES
  running,         \* the Node process of the server is alive
  connected,       \* sockets whose connection is open
  closed,          \* sockets that have disconnected
  room,            \* members of the socket.io room 'classroom'
  admin,           \* appState.admin
  users,           \* appState.users: socket id -> [name, role, streamActive]
  chat,            \* appState.chat
  drawingEnabled,  \* appState.drawingEnabled
  out,             \* emit calls of the last handler, in program order
  last,            \* the event the last handler processed
  pre,             \* appState and the room as the last handler found them
  scen,            \* progress of the run through the Alice/Bob scenario
  app,             \* the state of the component App
  join,            \* position of the browser, its form input and its sockets
  listeners,       \* <<component, event>> listeners on the browser's socket
  view,            \* the component Classroom: mounted or not, and its state
  react,           \* what React has pending, and the screen App returned last
  inbox,           \* events the server has sent to the browser, in order
  outbox,          \* packets the browser has emitted to the server, in order
  snap,            \* payload of the join_success received for the Classroom shown
  clast,           \* the last step, if it was a dispatch or an effect run
  peerEvents       \* events of peers handled so far beside the browser

cvars == <<app, join, listeners, view, react, inbox, outbox, snap, clast, peerEvents>>

\* the server, and the observers of its handlers
svars == <<running, connected, closed, room, admin, users, chat, drawingEnabled, out>>
hist == <<last, pre, scen>>

vars == <<running, connected, closed, room, admin, users, chat, drawingEnabled, out,
          last, pre, scen,
          app, join, listeners, view, react, inbox, outbox, snap, clast, peerEvents>>

\* ---------------------------------------------------------------- helpers

\* const user = appState.users[socket.id]; if (user) ...
HasUser(c) == c \in DOMAIN users

\* user && user.role === 'admin'
IsAdminUser(c) == HasUser(c) /\ users[c].role = "admin"

\* appState.users[id] = rec
PutUser(us, c, rec) == [d \in (DOMAIN us) \cup {c} |-> IF d = c THEN rec ELSE us[d]]

\* delete appState.users[id]
DelUser(us, c) == [d \in (DOMAIN us) \ {c} |-> us[d]]

\* appState.users = {}
NoUsers == [d \in {} |-> 0]

\* Number.prototype.toString(): the decimal digits of n, most significant first
RECURSIVE NumToString(_)
NumToString(n) == IF n < 10 THEN <<n>> ELSE Append(NumToString(n \div 10), n % 10)

\* the message ids a client can name in delete_message
MessageIds == {NumToString(n) : n \in 0..MaxClock}

\* appState.chat.filter(msg => msg.id !== messageId)
RECURSIVE FilterChat(_, _)
FilterChat(c, messageId) ==
  IF c = <<>> THEN <<>>
  ELSE IF Head(c).id # messageId
       THEN <<Head(c)>> \o FilterChat(Tail(c), messageId)
       ELSE FilterChat(Tail(c), messageId)

\* the sockets in a socket.io room: 'classroom', or the private room every
\* connected socket has under its own id
SocketsIn(r, rm, conn) ==
  IF r = ClassroomRoom THEN rm
  ELSE IF r \in conn THEN {r} ELSE {}

\* one emit call: event name, receiving sockets, payload
Emit(ev, to, data) == [ev |-> ev, to |-> to, data |-> data]

NoData == [none |-> TRUE]

\* what a handler finds when it starts
Before == [admin |-> admin, users |-> users, chat |-> chat,
           drawingEnabled |-> drawingEnabled, room |-> room, connected |-> connected]

\* a reset that forgets appState.chat = []
ResetStateKeepsChat ==
  [admin |-> NoConn, users |-> NoUsers, chat |-> chat, drawingEnabled |-> TRUE]

\* a reset that forgets appState.admin = null
ResetStateKeepsAdmin ==
  [admin |-> admin, users |-> NoUsers, chat |-> <<>>, drawingEnabled |-> TRUE]

\* "Reset app state": the values the disconnect handler assigns when the
\* admin leaves, which are those appState is constructed with
ResetState == [admin |-> NoConn, users |-> NoUsers, chat |-> <<>>, drawingEnabled |-> TRUE]

\* Observer of the scenario "Alice joins with the secret, Bob joins, Alice
\* disconnects, Bob joins again", from the empty session.  Connections are
\* transport-level and leave it alone; any other event takes the run off it.
ScenOff == [ph |-> "off", a |-> NoConn, b |-> NoConn]

ScenStep(op, c, code) ==
  IF op = "connection" THEN scen
  ELSE IF scen.ph = "start" /\ op = "join_room" /\ code = AdminCode
       THEN [ph |-> "alice", a |-> c, b |-> NoConn]
  ELSE IF scen.ph = "alice" /\ op = "join_room" /\ c # scen.a /\ code = NoCode
       THEN [scen EXCEPT !.ph = "bob", !.b = c]
  ELSE IF scen.ph = "bob" /\ op = "disconnect" /\ c = scen.a
       THEN [scen EXCEPT !.ph = "ended"]
  ELSE IF scen.ph = "ended" /\ op = "join_room" /\ c = scen.b
       THEN [scen EXCEPT !.ph = "rejoined"]
  ELSE ScenOff

\* useState<AppState>({socket: null, isConnected: false, inClassroom: false,
\* userRole: 'student', userName: '', error: null}); userName is join.name
AppInitial == [socket |-> NoConn, isConnected |-> FALSE, inClassroom |-> FALSE,
               userRole |-> "student", error |-> FALSE]

\* what Classroom was rendered with last: the values its event handlers and
\* buttons close over
Rendered(ch, enabled, role) == [chat |-> ch, drawingEnabled |-> enabled, userRole |-> role]

\* Classroom not rendered
Unmounted == [mounted |-> FALSE, effect |-> FALSE, users |-> NoUsers, chat |-> <<>>,
              drawingEnabled |-> TRUE, rendered |-> Rendered(<<>>, TRUE, "student")]

\* Classroom rendered for the first time with userRole role: useState({}),
\* useState([]), useState(true); its effect has not run yet
Mounted(role) == [mounted |-> TRUE, effect |-> FALSE, users |-> NoUsers, chat |-> <<>>,
                  drawingEnabled |-> TRUE, rendered |-> Rendered(<<>>, TRUE, role)]

\* a step that is neither a dispatch nor an effect run
Other == [op |-> "other", ev |-> "none", heard |-> {}]

\* no join_success received yet
NoSnap == [none |-> TRUE]

\* ------------------------------------------------------------------ Init
Init ==
  /\ running = TRUE
  /\ connected = {}
  /\ closed = {}
  /\ room = {}
  /\ admin = NoConn
  /\ users = NoUsers
  /\ chat = <<>>
  /\ drawingEnabled = TRUE
  /\ out = <<>>
  /\ last = [op |-> "listen", conn |-> NoConn, threw |-> FALSE]
  /\ pre = Before
  /\ scen = [ph |-> "start", a |-> NoConn, b |-> NoConn]
  /\ app = AppInitial
  /\ join = [pc |-> "idle", name |-> "", code |-> NoCode,
             sock |-> NoConn, socks |-> {}, emits |-> 0]
  /\ listeners = {}
  /\ view = Unmounted
  /\ react = [render |-> "none", later |-> FALSE, rerun |-> FALSE, cleanup |-> FALSE,
              page |-> "landing", form |-> TRUE]
  /\ inbox = <<>>
  /\ outbox = <<>>
  /\ snap = NoSnap
  /\ clast = Other
  /\ peerEvents = 0

\* io.on('connection', socket => ...): a new socket, not yet joined
Connection(c) ==
  /\ running
  /\ c \notin connected \cup closed
  /\ connected' = connected \cup {c}
  /\ out' = <<>>
  /\ UNCHANGED <<running, closed, room, admin, users, chat, drawingEnabled>>

\* a role check that forgets !appState.admin
JoinRoleAnyTime(code) == IF code = AdminCode THEN "admin" ELSE "student"

\* role granted by join_room
JoinRole(code) == IF code = AdminCode /\ admin = NoConn THEN "admin" ELSE "student"

\* the record join_room stores for the joiner
JoinUser(name, code) == [name |-> name, role |-> JoinRole(code), streamActive |-> FALSE]

\* a snapshot taken before the joiner is registered
JoinSnapshotBeforeRegister(c, name, code) ==
  [role |-> JoinRole(code),
   users |-> users,
   chat |-> chat,
   drawingEnabled |-> drawingEnabled,
   isAdmin |-> (JoinRole(code) = "admin")]

\* the join_success payload, built after the joiner is registered
JoinSnapshot(c, name, code) ==
  [role |-> JoinRole(code),
   users |-> PutUser(users, c, JoinUser(name, code)),
   chat |-> chat,
   drawingEnabled |-> drawingEnabled,
   isAdmin |-> (JoinRole(code) = "admin")]

\* user_joined sent with io.to('classroom'): the joiner gets it too
JoinedRecipientsWholeRoom(c) == room \cup {c}

\* sockets that receive user_joined: socket.to('classroom'), after socket.join
JoinedRecipients(c) == (room \cup {c}) \ {c}

\* socket.on('join_room', ...)
JoinRoom(c, name, code) ==
  /\ c \in connected
  /\ admin' = IF JoinRole(code) = "admin" THEN c ELSE admin
  /\ users' = PutUser(users, c, JoinUser(name, code))
  /\ room' = room \cup {c}
  /\ out' = << Emit("join_success", {c}, JoinSnapshot(c, name, code)),
               Emit("user_joined", JoinedRecipients(c),
                    [userId |-> c, user |-> JoinUser(name, code)]) >>
  /\ UNCHANGED <<running, connected, closed, chat, drawingEnabled>>

\* the condition under which set_admin takes its first branch
SetAdminAccepts(code) == code = AdminCode /\ admin = NoConn

\* set_admin reaches line 77 with no record for the socket: TypeError
SetAdminThrows(c, code) == SetAdminAccepts(code) /\ ~HasUser(c)

\* socket.on('set_admin', ...).  With no record for the socket the assignment
\* appState.users[socket.id].role = 'admin' throws a TypeError after
\* appState.admin has been written and before anything is emitted.  Nothing
\* catches it: the process exits, every connection closes without its
\* disconnect handler, and no handler runs any more.  The appState variables
\* then keep what the process held when it died.
SetAdmin(c, code) ==
  /\ c \in connected
  /\ IF SetAdminAccepts(code)
     THEN /\ admin' = c
          /\ IF HasUser(c)
             THEN /\ users' = [users EXCEPT ![c].role = "admin"]
                  /\ out' = << Emit("admin_set", {c}, [isAdmin |-> TRUE]),
                               Emit("new_admin", room \ {c},
                                    [userId |-> c,
                                     user |-> [users[c] EXCEPT !.role = "admin"]]) >>
                  /\ UNCHANGED <<running, connected, closed, room>>
             ELSE /\ users' = users
                  /\ out' = <<>>
                  /\ running' = FALSE
                  /\ connected' = {}
                  /\ closed' = closed \cup connected
                  /\ room' = {}
     ELSE /\ admin' = admin
          /\ users' = users
          /\ out' = << Emit("admin_set", {c}, [isAdmin |-> FALSE]) >>
          /\ UNCHANGED <<running, connected, closed, room>>
  /\ UNCHANGED <<chat, drawingEnabled>>

\* targets a client can name in the `to` field of a signaling message
SignalTargets == Conns \cup {ClassroomRoom}

\* socket.to(data.to): the sockets of that room, the sender excluded
RelayRecipients(c, to) == SocketsIn(to, room, connected) \ {c}

\* shared shape of the three signaling handlers
Relay(c, kind, to) ==
  /\ c \in connected
  /\ out' = << Emit(kind, RelayRecipients(c, to), [from |-> c]) >>
  /\ UNCHANGED <<running, connected, closed, room, admin, users, chat, drawingEnabled>>

\* socket.on('offer', ...)
Offer(c, to) == Relay(c, "offer", to)

\* socket.on('answer', ...)
Answer(c, to) == Relay(c, "answer", to)

\* socket.on('ice-candidate', ...)
IceCandidate(c, to) == Relay(c, "ice-candidate", to)

\* Date.prototype.toISOString() of the instant ms milliseconds after the
\* epoch, for an instant within the first minute: YYYY-MM-DDTHH:mm:ss.sssZ
ToISOString(ms) ==
  [year |-> 1970, month |-> 1, day |-> 1, hour |-> 0, minute |-> 0,
   second |-> ms \div 1000, milli |-> ms % 1000]

\* the chatMessage object built by chat_message; the handler reads the wall
\* clock twice: t is the value Date.now() returns for the id, t2 the instant
\* of new Date() for the timestamp (two readings can be equal or differ)
NewChatMessage(c, message, t, t2) ==
  [id |-> NumToString(t), userId |-> c, username |-> users[c].name,
   message |-> message, timestamp |-> ToISOString(t2), role |-> users[c].role]

\* a push that puts the new message in front
UnshiftChat(ch, m) == <<m>> \o ch

\* appState.chat.push(chatMessage)
PushChat(ch, m) == Append(ch, m)

\* socket.on('chat_message', ...)
ChatMessage(c, message, t, t2) ==
  /\ c \in connected
  /\ HasUser(c) => Len(chat) < MaxChat
  /\ IF HasUser(c)
     THEN /\ chat' = PushChat(chat, NewChatMessage(c, message, t, t2))
          /\ out' = << Emit("new_message", room, NewChatMessage(c, message, t, t2)) >>
     ELSE /\ chat' = chat
          /\ out' = <<>>
  /\ UNCHANGED <<running, connected, closed, room, admin, users, drawingEnabled>>

\* a guard that forgets user.role === 'admin'
MayModerateAnyUser(c) == HasUser(c)

\* a guard that lets every socket through
MayModerateAnyone(c) == TRUE

\* the guard of delete_message, clear_canvas and toggle_draw
MayModerate(c) == IsAdminUser(c)

\* socket.on('delete_message', ...)
DeleteMessage(c, messageId) ==
  /\ c \in connected
  /\ IF MayModerate(c)
     THEN /\ chat' = FilterChat(chat, messageId)
          /\ out' = << Emit("message_deleted", room, [messageId |-> messageId]) >>
     ELSE /\ chat' = chat
          /\ out' = <<>>
  /\ UNCHANGED <<running, connected, closed, room, admin, users, drawingEnabled>>

\* a guard that forgets the admin
MayDrawFlagOnly(c) == drawingEnabled

\* the guard of draw_data
MayDraw(c) == drawingEnabled \/ IsAdminUser(c)

\* socket.on('draw_data', ...)
DrawData(c) ==
  /\ c \in connected
  /\ out' = IF MayDraw(c)
            THEN << Emit("draw_data", room \ {c}, [userId |-> c]) >>
            ELSE <<>>
  /\ UNCHANGED <<running, connected, closed, room, admin, users, chat, drawingEnabled>>

\* socket.on('clear_canvas', ...)
ClearCanvas(c) ==
  /\ c \in connected
  /\ out' = IF MayModerate(c)
            THEN << Emit("clear_canvas", room, NoData) >>
            ELSE <<>>
  /\ UNCHANGED <<running, connected, closed, room, admin, users, chat, drawingEnabled>>

\* socket.on('toggle_draw', ...)
ToggleDraw(c, enabled) ==
  /\ c \in connected
  /\ IF MayModerate(c)
     THEN /\ drawingEnabled' = enabled
          /\ out' = << Emit("drawing_toggled", room, [enabled |-> enabled]) >>
     ELSE /\ drawingEnabled' = drawingEnabled
          /\ out' = <<>>
  /\ UNCHANGED <<running, connected, closed, room, admin, users, chat>>

\* socket.on('stream_status', ...)
StreamStatus(c, streamActive) ==
  /\ c \in connected
  /\ IF HasUser(c)
     THEN /\ users' = [users EXCEPT ![c].streamActive = streamActive]
          /\ out' = << Emit("user_stream_status", room \ {c},
                            [userId |-> c, streamActive |-> streamActive]) >>
     ELSE /\ users' = users
          /\ out' = <<>>
  /\ UNCHANGED <<running, connected, closed, room, admin, chat, drawingEnabled>>

\* a handler that forgets if (user)
LeaveKindUnchecked(c) == IF IsAdminUser(c) THEN "end" ELSE "leave"

\* a handler that ends the session whoever leaves
LeaveKindAlwaysEnd(c) == IF HasUser(c) THEN "end" ELSE "none"

\* the branch the disconnect handler takes: "end" (the socket's record has
\* role admin), "leave" (another record), "none" (no record)
LeaveKind(c) ==
  IF HasUser(c)
  THEN IF users[c].role = "admin" THEN "end" ELSE "leave"
  ELSE "none"

\* session_ended addressed to the roster after it has been cleared
SessionEndedAfterReset(c) == (DOMAIN ResetState.users) \ {c}

\* sockets that receive session_ended: io.to('classroom'); socket.io has
\* taken the closing socket out of its rooms before 'disconnect' fires
SessionEndedRecipients(c) == room \ {c}

\* socket.on('disconnect', ...).  The handler body is also run for a socket
\* that is already closed (a repeated removal of the same id).
Disconnect(c) ==
  /\ running
  /\ c \in connected \cup closed
  /\ UNCHANGED running
  /\ connected' = connected \ {c}
  /\ closed' = closed \cup {c}
  /\ room' = room \ {c}
  /\ CASE LeaveKind(c) = "end" ->
            /\ out' = << Emit("session_ended", SessionEndedRecipients(c),
                              [reason |-> "Admin left the session"]) >>
            /\ admin' = ResetState.admin
            /\ users' = ResetState.users
            /\ chat' = ResetState.chat
            /\ drawingEnabled' = ResetState.drawingEnabled
       [] LeaveKind(c) = "leave" ->
            /\ users' = DelUser(users, c)
            /\ out' = << Emit("user_left", room \ {c}, [userId |-> c]) >>
            /\ UNCHANGED <<admin, chat, drawingEnabled>>
       [] OTHER ->
            /\ out' = <<>>
            /\ UNCHANGED <<admin, users, chat, drawingEnabled>>

\* app.get('/health')
Health == [status |-> "OK", users |-> Cardinality(DOMAIN users),
           admin |-> IF admin # NoConn THEN "present" ELSE "none"]

\* app.get('/state')
State == [userCount |-> Cardinality(DOMAIN users), hasAdmin |-> (admin # NoConn),
          chatMessages |-> Len(chat), drawingEnabled |-> drawingEnabled]

\* the observers of a handler run: the event it processed, the state it
\* found, the progress of the scenario
Log(rec, code) ==
  /\ last' = rec
  /\ pre' = Before
  /\ scen' = ScenStep(rec.op, rec.conn, code)

\* the server alone: no browser of the model takes part
ClientIdle == UNCHANGED cvars

\* a handler of the server ran, observed, with no browser of the model
Seen(rec, code) == Log(rec, code) /\ ClientIdle

Next ==
  \/ \E c \in Conns :
        Connection(c) /\ Seen([op |-> "connection", conn |-> c, threw |-> FALSE], NoCode)
  \/ \E c \in Conns, name \in Names, code \in Codes :
        JoinRoom(c, name, code)
        /\ Seen([op |-> "join_room", conn |-> c, threw |-> FALSE,
                 name |-> name, code |-> code], code)
  \/ \E c \in Conns, code \in Codes :
        SetAdmin(c, code)
        /\ Seen([op |-> "set_admin", conn |-> c, threw |-> SetAdminThrows(c, code),
                 code |-> code], code)
  \/ \E c \in Conns, to \in SignalTargets :
        Offer(c, to)
        /\ Seen([op |-> "offer", conn |-> c, threw |-> FALSE, to |-> to], NoCode)
  \/ \E c \in Conns, to \in SignalTargets :
        Answer(c, to)
        /\ Seen([op |-> "answer", conn |-> c, threw |-> FALSE, to |-> to], NoCode)
  \/ \E c \in Conns, to \in SignalTargets :
        IceCandidate(c, to)
        /\ Seen([op |-> "ice-candidate", conn |-> c, threw |-> FALSE, to |-> to], NoCode)
  \/ \E c \in Conns, message \in Bodies, t \in Times, t2 \in Times :
        ChatMessage(c, message, t, t2)
        /\ Seen([op |-> "chat_message", conn |-> c, threw |-> FALSE], NoCode)
  \/ \E c \in Conns, messageId \in MessageIds :
        DeleteMessage(c, messageId)
        /\ Seen([op |-> "delete_message", conn |-> c, threw |-> FALSE,
                 messageId |-> messageId], NoCode)
  \/ \E c \in Conns :
        DrawData(c) /\ Seen([op |-> "draw_data", conn |-> c, threw |-> FALSE], NoCode)
  \/ \E c \in Conns :
        ClearCanvas(c) /\ Seen([op |-> "clear_canvas", conn |-> c, threw |-> FALSE], NoCode)
  \/ \E c \in Conns, enabled \in BOOLEAN :
        ToggleDraw(c, enabled)
        /\ Seen([op |-> "toggle_draw", conn |-> c, threw |-> FALSE,
                 enabled |-> enabled], NoCode)
  \/ \E c \in Conns, streamActive \in BOOLEAN :
        StreamStatus(c, streamActive)
        /\ Seen([op |-> "stream_status", conn |-> c, threw |-> FALSE], NoCode)
  \/ \E c \in Conns :
        Disconnect(c) /\ Seen([op |-> "disconnect", conn |-> c, threw |-> FALSE], NoCode)

Spec == Init /\ [][Next]_vars

\* ================================================================ client
\* One browser.  join.pc is the position of its current socket: "idle" (no
\* socket, or the socket was disconnected by handleLeaveSession),
\* "connecting", "connected", "sent" (join_room emitted), "lost" (the server
\* is gone and the socket tries to reconnect).  join.sock is the id the
\* server gave the current socket, join.socks the ids its sockets have had,
\* join.emits the number of packets Classroom has emitted on the socket.
\* Packets the browser emits travel to the server in `outbox`, events the
\* server emits to the browser in `inbox`; both keep their order.  `react`
\* holds what React has pending and what is on the screen: react.render is
\* "sync" when a click handler has called setState (React renders and runs
\* the effects of that render before any other task), "async" when only
\* listeners of the socket have (the render is a later task, and the
\* effects of that render a task later still); react.later says that a
\* listener of the socket has called setState too while react.render is
\* "sync": the render of the click leaves that update to a render of its
\* own; react.rerun and react.cleanup are the effect runs of Classroom
\* still to come.  The transport
\* stays up while the server runs.  Beside the browser the server handles at
\* most MaxPeerEvents events of peers, Classroom emits at most MaxEmits
\* packets on one socket, and the clock reads a value of ClientTimes.

\* the listeners connectSocket registers on the new socket
AppListeners == {<<"App", "connect">>, <<"App", "disconnect">>,
                 <<"App", "join_success">>, <<"App", "connect_error">>}

\* the events the effect of Classroom listens to
ClassroomEvents == {"join_success", "user_joined", "user_left", "new_message",
                    "message_deleted", "draw_data", "clear_canvas",
                    "drawing_toggled", "session_ended"}

\* the listeners the effect of Classroom registers
ClassroomListeners == {<<"Classroom", ev>> : ev \in ClassroomEvents}

\* socket.off(ev) for each event of Classroom: it removes every listener of
\* the event, whichever component registered it
AfterOff(ls) == {l \in ls : l[2] \notin ClassroomEvents}

\* the emit calls of a handler that reach the browser's current socket
ForBrowser(o) == SelectSeq(o, LAMBDA e : join.sock \in e.to)

\* a server handler ran: what it emitted to the browser is now in flight
Carry(events) ==
  /\ Len(inbox \o events) <= MaxInbox
  /\ inbox' = inbox \o events

\* socket.emit(ev, data) on the browser's socket: the packet is in flight to
\* the server, behind those emitted before it; a packet for a server that is
\* gone is lost
SocketEmit(p) ==
  /\ running => Len(outbox) < MaxOutbox
  /\ outbox' = IF running THEN Append(outbox, p) ELSE outbox

\* a handler of the server ran for a peer while the browser did nothing; the
\* packets in flight to a server that went down are lost
Served(A) ==
  /\ A
  /\ Carry(ForBrowser(out'))
  /\ outbox' = IF running' THEN outbox ELSE <<>>
  /\ clast' = Other
  /\ UNCHANGED <<app, join, listeners, view, react, snap>>
  /\ UNCHANGED hist

\* React after setState in a click handler: the render of the click comes
\* first, and an update of a listener of the socket still pending waits
\* for a render after it
Clicked == [react EXCEPT !.render = "sync", !.later = react.render = "async"]

\* no click is being handled: a click handler that calls setState and the
\* render of that click are one task of the browser
BetweenTasks == react.render # "sync"

\* handleJoinClassroom(name, adminCode), called by the form of LandingPage
\* (which then disables itself): setState, then connectSocket creates a
\* socket and registers the listeners of App on it; joinRoom then polls
\* socket.connected.  `listeners` are those of the new socket; a cleanup
\* still to come is for the socket before it.
HandleJoinClassroom(name, code) ==
  /\ BetweenTasks
  /\ react.page = "landing" /\ react.form
  /\ app' = [app EXCEPT !.error = FALSE]
  /\ react' = [Clicked EXCEPT !.form = FALSE, !.cleanup = FALSE]
  /\ join' = [join EXCEPT !.pc = "connecting", !.name = name, !.code = code,
                          !.sock = NoConn]
  /\ listeners' = AppListeners
  /\ clast' = Other
  /\ UNCHANGED <<view, inbox, outbox, snap>>
  /\ UNCHANGED <<svars, hist, peerEvents>>

\* the new socket reaches the server under a fresh id, and the server's
\* handshake tells the client that it is connected
BrowserConnection(c) ==
  /\ join.pc = "connecting" /\ join.sock = NoConn
  /\ Connection(c)
  /\ Carry(<< Emit("connect", {c}, NoData) >>)
  /\ join' = [join EXCEPT !.sock = c, !.socks = @ \cup {c}]
  /\ clast' = Other
  /\ UNCHANGED <<app, listeners, view, react, outbox, snap>>
  /\ UNCHANGED <<hist, peerEvents>>

\* joinRoom finds socket.connected and emits join_room; its adminCode is
\* not used again
JoinRoomTimer ==
  /\ BetweenTasks
  /\ join.pc = "connected"
  /\ SocketEmit([ev |-> "join_room", sock |-> join.sock,
                 name |-> join.name, code |-> join.code])
  /\ join' = [join EXCEPT !.pc = "sent", !.code = NoCode]
  /\ clast' = Other
  /\ UNCHANGED <<app, listeners, view, react, inbox, snap>>
  /\ UNCHANGED <<svars, hist, peerEvents>>

\* the handler the server runs for packet p of the browser
HandlePacket(p) ==
  \/ p.ev = "join_room" /\ JoinRoom(p.sock, p.name, p.code)
  \/ p.ev = "chat_message" /\ \E t \in ClientTimes, t2 \in ClientTimes :
                                 ChatMessage(p.sock, p.message, t, t2)
  \/ p.ev = "delete_message" /\ DeleteMessage(p.sock, p.messageId)
  \/ p.ev = "draw_data" /\ DrawData(p.sock)
  \/ p.ev = "clear_canvas" /\ ClearCanvas(p.sock)
  \/ p.ev = "toggle_draw" /\ ToggleDraw(p.sock, p.enabled)
  \/ p.ev = "disconnect" /\ Disconnect(p.sock)

\* the server handles the next packet of the browser, whatever the browser
\* has done since it emitted the packet
ServerHandles ==
  /\ outbox # <<>>
  /\ HandlePacket(Head(outbox))
  /\ outbox' = Tail(outbox)
  /\ Carry(ForBrowser(out'))
  /\ clast' = Other
  /\ UNCHANGED <<app, join, listeners, view, react, snap>>
  /\ UNCHANGED <<hist, peerEvents>>

\* the components whose listener runs for event e: those registered for it
\* on the socket, if e is for the browser's current socket; a socket that
\* was disconnected dispatches nothing
Heard(e) ==
  IF join.pc # "idle" /\ join.sock \in e.to
  THEN {l[1] : l \in {m \in listeners : m[2] = e.ev}}
  ELSE {}

\* handleLeaveSession ran as the session_ended listener of Classroom
LeftBy(e) == e.ev = "session_ended" /\ "Classroom" \in Heard(e)

\* a listener of App ran for e and called setState, so App renders again
AppSetState(e) ==
  /\ e.ev \in {"connect", "disconnect", "join_success", "connect_error"}
  /\ "App" \in Heard(e)

\* the state of App after the listeners have run for event e: App's own
\* listeners, and handleLeaveSession
AppAfter(e) ==
  IF ~AppSetState(e) THEN (IF LeftBy(e) THEN AppInitial ELSE app)
  ELSE CASE e.ev = "connect" ->
              [app EXCEPT !.socket = join.sock, !.isConnected = TRUE]
         [] e.ev = "disconnect" ->
              [app EXCEPT !.isConnected = FALSE]
         [] e.ev = "join_success" ->
              [app EXCEPT !.inClassroom = TRUE, !.userRole = e.data.role,
                          !.error = FALSE]
         [] e.ev = "connect_error" ->
              [app EXCEPT !.error = TRUE]

\* the state of Classroom after its listener has run for event e
ViewAfter(e) ==
  IF "Classroom" \notin Heard(e) THEN view
  ELSE CASE e.ev = "join_success" ->
              [view EXCEPT !.users = e.data.users, !.chat = e.data.chat,
                           !.drawingEnabled = e.data.drawingEnabled]
         [] e.ev = "user_joined" ->
              [view EXCEPT !.users = PutUser(view.users, e.data.userId, e.data.user)]
         [] e.ev = "user_left" ->
              [view EXCEPT !.users = DelUser(view.users, e.data.userId)]
         [] e.ev = "new_message" ->
              [view EXCEPT !.chat = Append(view.chat, e.data)]
         [] e.ev = "message_deleted" ->
              [view EXCEPT !.chat = FilterChat(view.chat, e.data.messageId)]
         [] e.ev = "drawing_toggled" ->
              [view EXCEPT !.drawingEnabled = e.data.enabled]
         [] OTHER -> view

\* the browser after handleLeaveSession: state.socket.disconnect(), and
\* userName is '' again
Left == [join EXCEPT !.pc = "idle", !.sock = NoConn, !.name = "", !.code = NoCode,
                     !.emits = 0]

\* state.socket.disconnect() of handleLeaveSession: a socket that is
\* connected tells the server, behind the packets it has emitted (the one
\* packet that may exceed MaxOutbox); one that has lost the server just stops
LeaveEmit ==
  outbox' = IF join.sock # NoConn /\ running
            THEN Append(outbox, [ev |-> "disconnect", sock |-> join.sock])
            ELSE outbox

\* the socket of the browser after event e
JoinAfter(e) ==
  IF e.ev = "connect" /\ join.sock \in e.to THEN [join EXCEPT !.pc = "connected"]
  ELSE IF e.ev = "disconnect" /\ join.sock \in e.to
    THEN [join EXCEPT !.pc = "lost", !.sock = NoConn]
  ELSE IF LeftBy(e) THEN Left
  ELSE join

\* event e is dispatched to the listeners registered for it at this moment;
\* an event nobody listens to is dropped.  A listener that changes the
\* state of App leaves a render of App pending; one that changes the state
\* of Classroom leaves what Classroom was rendered with as it is.
Dispatch(e) ==
  /\ app' = AppAfter(e)
  /\ view' = ViewAfter(e)
  /\ join' = JoinAfter(e)
  /\ react' = [react EXCEPT !.render = IF (AppSetState(e) \/ LeftBy(e)) /\ @ = "none"
                                       THEN "async" ELSE @]
  /\ IF LeftBy(e) THEN LeaveEmit ELSE outbox' = outbox
  /\ snap' = IF e.ev = "join_success" /\ Heard(e) # {} THEN e.data ELSE snap
  /\ clast' = [op |-> "receive", ev |-> e.ev, heard |-> Heard(e)]
  /\ UNCHANGED listeners

\* the next event of the server arrives
Receive ==
  /\ BetweenTasks
  /\ inbox # <<>>
  /\ inbox' = Tail(inbox)
  /\ Dispatch(Head(inbox))
  /\ UNCHANGED <<svars, hist, peerEvents>>

\* the server is gone: after the events it had sent, the browser's socket
\* sees the transport close, fires 'disconnect' and starts to reconnect
TransportClosed ==
  /\ BetweenTasks
  /\ ~running
  /\ join.sock # NoConn
  /\ inbox = <<>>
  /\ Dispatch(Emit("disconnect", {join.sock}, NoData))
  /\ UNCHANGED <<inbox, svars, hist, peerEvents>>

\* an attempt of the browser's socket to reach the server fails
ConnectError ==
  /\ BetweenTasks
  /\ ~running
  /\ join.pc \in {"connecting", "lost"} /\ join.sock = NoConn
  /\ Dispatch(Emit("connect_error", {join.sock}, NoData))
  /\ UNCHANGED <<inbox, svars, hist, peerEvents>>

\* the Try Again button of the error screen
TryAgain ==
  /\ BetweenTasks
  /\ react.page = "error"
  /\ app' = [app EXCEPT !.error = FALSE]
  /\ react' = Clicked
  /\ clast' = Other
  /\ UNCHANGED <<join, listeners, view, inbox, outbox, snap>>
  /\ UNCHANGED <<svars, hist, peerEvents>>

\* what App returns for state a
Screen(a) ==
  IF a.error THEN "error"
  ELSE IF ~a.inClassroom THEN "landing"
  ELSE IF a.socket # NoConn THEN "classroom"
  ELSE "spinner"

\* the effect of Classroom is due: it has not run since the component was
\* mounted, or the component was rendered with a new onLeaveSession
EffectDue == view.mounted /\ (~view.effect \/ react.rerun)

\* the listeners once the effect that is due has run: the cleanup of its
\* previous run first (socket.off for each event), then socket.on for each
Flushed ==
  IF ~EffectDue THEN listeners
  ELSE IF view.effect THEN AfterOff(listeners) \cup ClassroomListeners
  ELSE listeners \cup ClassroomListeners

\* the render of App still pending after this one: the render of a click
\* takes the update of the click only
RenderLeft == IF react.render = "sync" /\ react.later THEN "async" ELSE "none"

\* the listeners once the effect runs still to come have happened; React
\* runs them before it renders again
Settled == IF react.cleanup THEN AfterOff(listeners) ELSE Flushed

\* App renders, and Classroom with it.  React first runs the effect runs
\* still to come.  Classroom is mounted once state.socket and
\* state.inClassroom are set; while it stays mounted every render of App
\* hands it a new onLeaveSession, so its effect is due again; when App
\* returns another screen Classroom is unmounted and the cleanup of its
\* effect is due.  The effect runs this render leaves due happen with it
\* when a click caused the render, and in a later task otherwise.  The
\* render of a click leaves an update of a listener of the socket pending,
\* and App renders once more for it in a later task.  A
\* LandingPage that was not on the screen is a new one, with its form
\* enabled.
Render ==
  /\ react.render # "none"
  /\ IF Screen(app) = "classroom"
     THEN IF view.mounted
          THEN /\ view' = [view EXCEPT !.effect = TRUE,
                               !.rendered = Rendered(view.chat, view.drawingEnabled,
                                                     app.userRole)]
               /\ listeners' = IF react.render = "sync"
                               THEN AfterOff(Settled) \cup ClassroomListeners
                               ELSE Settled
               /\ react' = [render |-> RenderLeft, later |-> FALSE,
                            rerun |-> react.render = "async",
                            cleanup |-> FALSE, page |-> "classroom", form |-> FALSE]
          ELSE /\ view' = [Mounted(app.userRole) EXCEPT !.effect = react.render = "sync"]
               /\ listeners' = IF react.render = "sync"
                               THEN Settled \cup ClassroomListeners
                               ELSE Settled
               /\ react' = [render |-> RenderLeft, later |-> FALSE, rerun |-> FALSE,
                            cleanup |-> FALSE, page |-> "classroom", form |-> FALSE]
     ELSE /\ view' = Unmounted
          /\ listeners' = IF view.mounted /\ react.render = "sync"
                          THEN AfterOff(Settled)
                          ELSE Settled
          /\ react' = [render |-> RenderLeft, later |-> FALSE, rerun |-> FALSE,
                       cleanup |-> view.mounted /\ react.render = "async",
                       page |-> Screen(app),
                       form |-> /\ Screen(app) = "landing"
                                /\ (react.page = "landing" => react.form)]
  /\ snap' = IF Screen(app) = "classroom" THEN snap ELSE NoSnap
  /\ clast' = Other
  /\ UNCHANGED <<app, join, inbox, outbox>>
  /\ UNCHANGED <<svars, hist, peerEvents>>

\* Classroom renders again after a listener changed its state: React first
\* runs the effect that is due; the effect is not due again, as socket and
\* onLeaveSession are those of the last render.  When a render of App is
\* pending too, that render is this one.
ClassroomRender ==
  /\ view.mounted /\ react.render = "none"
  /\ view.rendered # Rendered(view.chat, view.drawingEnabled, view.rendered.userRole)
  /\ view' = [view EXCEPT !.effect = TRUE,
                          !.rendered = Rendered(view.chat, view.drawingEnabled,
                                                view.rendered.userRole)]
  /\ listeners' = Flushed
  /\ react' = [react EXCEPT !.rerun = FALSE]
  /\ clast' = Other
  /\ UNCHANGED <<app, join, inbox, outbox, snap>>
  /\ UNCHANGED <<svars, hist, peerEvents>>

\* the effect of Classroom runs, in a task after the render that left it due
Effect ==
  /\ BetweenTasks
  /\ EffectDue
  /\ view' = [view EXCEPT !.effect = TRUE]
  /\ listeners' = Flushed
  /\ react' = [react EXCEPT !.rerun = FALSE]
  /\ clast' = [op |-> "effect", ev |-> IF view.effect THEN "again" ELSE "first",
               heard |-> {}]
  /\ UNCHANGED <<app, join, inbox, outbox, snap>>
  /\ UNCHANGED <<svars, hist, peerEvents>>

\* the cleanup of the effect of Classroom runs, in a task after the render
\* that unmounted the component
Cleanup ==
  /\ BetweenTasks
  /\ react.cleanup
  /\ listeners' = AfterOff(listeners)
  /\ react' = [react EXCEPT !.cleanup = FALSE]
  /\ clast' = Other
  /\ UNCHANGED <<app, join, view, inbox, outbox, snap>>
  /\ UNCHANGED <<svars, hist, peerEvents>>

\* the Leave Session button of Classroom: handleLeaveSession
HandleLeaveSession ==
  /\ BetweenTasks
  /\ view.mounted
  /\ LeaveEmit
  /\ app' = AppInitial
  /\ join' = Left
  /\ react' = Clicked
  /\ clast' = Other
  /\ UNCHANGED <<listeners, view, inbox, snap>>
  /\ UNCHANGED <<svars, hist, peerEvents>>

\* Classroom is on the screen and its socket is connected
InClassroom == view.mounted /\ join.sock # NoConn

\* a button or the canvas of Classroom emits packet p
Click(p) ==
  /\ BetweenTasks
  /\ InClassroom
  /\ SocketEmit(p)
  /\ join.emits < MaxEmits
  /\ join' = [join EXCEPT !.emits = @ + 1]
  /\ clast' = Other
  /\ UNCHANGED <<app, listeners, view, react, inbox, snap>>
  /\ UNCHANGED <<svars, hist, peerEvents>>

\* sendMessage
SendMessage(message) ==
  Click([ev |-> "chat_message", sock |-> join.sock, message |-> message])

\* deleteMessage(message.id): the button Classroom shows the teacher for a
\* message of the chat list it was rendered with
DeleteMessageButton(messageId) ==
  /\ view.rendered.userRole = "admin"
  /\ \E i \in DOMAIN view.rendered.chat : view.rendered.chat[i].id = messageId
  /\ Click([ev |-> "delete_message", sock |-> join.sock, messageId |-> messageId])

\* handleClearCanvas: a button shown to the teacher
HandleClearCanvas ==
  /\ view.rendered.userRole = "admin"
  /\ Click([ev |-> "clear_canvas", sock |-> join.sock])

\* handleToggleDrawing: a button shown to the teacher; it asks for the
\* opposite of the flag Classroom was rendered with
HandleToggleDrawing ==
  /\ view.rendered.userRole = "admin"
  /\ Click([ev |-> "toggle_draw", sock |-> join.sock,
            enabled |-> ~view.rendered.drawingEnabled])

\* handleCanvasMouseMove while drawing, with the flag and the role Classroom
\* was rendered with
HandleCanvasMouseMove ==
  /\ view.rendered.drawingEnabled \/ view.rendered.userRole = "admin"
  /\ Click([ev |-> "draw_data", sock |-> join.sock])

\* a peer (a socket that is not one of the browser's) connects
PeerConnection(c) ==
  /\ c \notin join.socks
  /\ Served(Connection(c))
  /\ UNCHANGED peerEvents

\* the server handles an event of a peer
ByPeer(c, A) ==
  /\ c \notin join.socks
  /\ peerEvents < MaxPeerEvents
  /\ peerEvents' = peerEvents + 1
  /\ Served(A)

ClientNext ==
  \/ \E name \in Names, code \in Codes : HandleJoinClassroom(name, code)
  \/ \E c \in Conns : BrowserConnection(c)
  \/ JoinRoomTimer
  \/ ServerHandles
  \/ Receive
  \/ TransportClosed
  \/ ConnectError
  \/ TryAgain
  \/ Render
  \/ ClassroomRender
  \/ Effect
  \/ Cleanup
  \/ HandleLeaveSession
  \/ \E message \in Bodies : SendMessage(message)
  \/ \E messageId \in MessageIds : DeleteMessageButton(messageId)
  \/ HandleClearCanvas
  \/ HandleToggleDrawing
  \/ HandleCanvasMouseMove
  \/ \E c \in Conns : PeerConnection(c)
  \/ \E c \in Conns, name \in Names, code \in Codes : ByPeer(c, JoinRoom(c, name, code))
  \/ \E c \in Conns, code \in Codes : ByPeer(c, SetAdmin(c, code))
  \/ \E c \in Conns, to \in SignalTargets : ByPeer(c, Offer(c, to))
  \/ \E c \in Conns, to \in SignalTargets : ByPeer(c, Answer(c, to))
  \/ \E c \in Conns, to \in SignalTargets : ByPeer(c, IceCandidate(c, to))
  \/ \E c \in Conns, message \in Bodies, t \in ClientTimes, t2 \in ClientTimes :
        ByPeer(c, ChatMessage(c, message, t, t2))
  \/ \E c \in Conns, messageId \in MessageIds : ByPeer(c, DeleteMessage(c, messageId))
  \/ \E c \in Conns : ByPeer(c, DrawData(c))
  \/ \E c \in Conns : ByPeer(c, ClearCanvas(c))
  \/ \E c \in Conns, enabled \in BOOLEAN : ByPeer(c, ToggleDraw(c, enabled))
  \/ \E c \in Conns, streamActive \in BOOLEAN : ByPeer(c, StreamStatus(c, streamActive))
  \/ \E c \in Conns : ByPeer(c, Disconnect(c))

ClientSpec == Init /\ [][ClientNext]_vars

\* ================================================================ claims

\* the appState part of the current state
Session == [admin |-> admin, users |-> users, chat |-> chat,
            drawingEnabled |-> drawingEnabled]

\* the appState part of what the last handler found
SessionBefore == [admin |-> pre.admin, users |-> pre.users, chat |-> pre.chat,
                  drawingEnabled |-> pre.drawingEnabled]

\* participants with role admin in a roster
Admins(us) == {c \in DOMAIN us : us[c].role = "admin"}

\* role of the record the last handler found for its socket
RoleBefore ==
  IF last.conn \in DOMAIN pre.users THEN pre.users[last.conn].role ELSE "none"

\* the last handler processed an admin claim carrying the given kind of secret
IsClaim == last.op \in {"join_room", "set_admin"}

\* the response of the last handler tells the claimer that it is the admin
ClaimGranted ==
  /\ out # <<>>
  /\ \/ out[1].ev = "join_success" /\ out[1].data.role = "admin"
     \/ out[1].ev = "admin_set" /\ out[1].data.isAdmin

\* the response of the last handler tells the claimer that it is not
ClaimDenied ==
  /\ out # <<>>
  /\ \/ out[1].ev = "join_success" /\ out[1].data.role = "student"
     \/ out[1].ev = "admin_set" /\ ~out[1].data.isAdmin

\* C1: in every reachable state at most one participant of the roster has
\* role admin.
C1_AtMostOneAdmin == Cardinality(Admins(users)) <= 1

\* a second connection claimed admin with the right secret while the roster
\* already had its admin
C1_Witness ==
  /\ IsClaim /\ last.code = AdminCode
  /\ last.conn \in DOMAIN users
  /\ Cardinality(Admins(users)) = 1
  /\ last.conn \notin Admins(users)

\* C2: while the server runs, appState.admin is set if and only if the roster has a participant with
\* role admin whose connection is open, and then it is that participant's id.
C2_AdminIffConnectedAdmin ==
  running =>
     /\ (admin # NoConn) <=> (\E c \in Admins(users) : c \in connected)
     /\ \A c \in Admins(users) : c \in connected => admin = c

\* C3: of the claims carrying the right secret, the one that finds the session
\* without admin is granted and every one that finds an admin is denied.
C3_ExactlyOneGranted ==
  (IsClaim /\ last.code = AdminCode) =>
     IF pre.admin = NoConn THEN ClaimGranted ELSE ClaimDenied

\* C4: a set_admin or join_room carrying a secret other than adminCode changes
\* neither appState.admin nor the role of any participant, and such a join
\* yields role student.
C4_WrongSecretChangesNothing ==
  (IsClaim /\ last.code # AdminCode) =>
     /\ admin = pre.admin
     /\ \A c \in DOMAIN pre.users : c \in DOMAIN users /\ users[c].role = pre.users[c].role
     /\ last.op = "join_room" => users[last.conn].role = "student"

\* C5: right after the disconnect of a participant with role admin the session
\* is the initial one: no admin, empty roster, empty chat, drawing enabled.
C5_AdminDisconnectResets ==
  (last.op = "disconnect" /\ RoleBefore = "admin") =>
     /\ admin = NoConn
     /\ users = NoUsers
     /\ chat = <<>>
     /\ drawingEnabled = TRUE

\* the admin left a session with another participant, a chat message and
\* drawing disabled
C5_Witness ==
  /\ last.op = "disconnect" /\ RoleBefore = "admin"
  /\ Cardinality(DOMAIN pre.users) >= 2
  /\ Len(pre.chat) >= 1
  /\ ~pre.drawingEnabled

\* C6: when a participant with role admin disconnects, session_ended is the
\* first and only thing the handler emits, it reaches every participant that
\* remained in the roster the handler found, and the roster is empty only
\* afterwards.
C6_SessionEndedToAllRemaining ==
  (last.op = "disconnect" /\ RoleBefore = "admin") =>
     /\ Len(out) = 1
     /\ out[1].ev = "session_ended"
     /\ (DOMAIN pre.users) \ {last.conn} \subseteq out[1].to
     /\ users = NoUsers

\* the admin left while another participant was in the roster
C6_Witness ==
  /\ last.op = "disconnect" /\ RoleBefore = "admin"
  /\ (DOMAIN pre.users) \ {last.conn} # {}
  /\ out[1].to # {}

\* C7: a delete_message from a socket whose record has role student, or that
\* has no record, leaves the chat as it was and emits nothing.
C7_NonAdminDeleteIsNoOp ==
  (last.op = "delete_message" /\ RoleBefore # "admin") =>
     /\ chat = pre.chat
     /\ out = <<>>

\* a student named the id of a message that is in the chat
C7_Witness ==
  /\ last.op = "delete_message" /\ RoleBefore = "student"
  /\ \E i \in DOMAIN pre.chat : pre.chat[i].id = last.messageId

\* C8: the join_success snapshot goes to the joiner alone and is the session
\* the handler found (roster, chat, drawing flag) plus the joiner's own record,
\* with the role that record holds.
C8_SnapshotIsStateAtJoin ==
  (last.op = "join_room") =>
     /\ out[1].ev = "join_success"
     /\ out[1].to = {last.conn}
     /\ out[1].data.chat = pre.chat
     /\ out[1].data.drawingEnabled = pre.drawingEnabled
     /\ DOMAIN out[1].data.users = (DOMAIN pre.users) \cup {last.conn}
     /\ \A c \in (DOMAIN pre.users) \ {last.conn} :
           out[1].data.users[c] = pre.users[c]
     /\ out[1].data.users[last.conn] = users[last.conn]
     /\ out[1].data.role = users[last.conn].role
     /\ out[1].data.users = users

\* a connection joined a session that had a participant, a chat message and
\* drawing disabled
C8_Witness ==
  /\ last.op = "join_room"
  /\ last.conn \notin DOMAIN pre.users
  /\ pre.users # NoUsers
  /\ Len(pre.chat) >= 1
  /\ ~pre.drawingEnabled

\* C9: the disconnect of a socket that has no record in the roster changes
\* nothing in the session and emits nothing.
C9_AbsentDisconnectIsNoOp ==
  (last.op = "disconnect" /\ RoleBefore = "none") =>
     /\ Session = SessionBefore
     /\ out = <<>>

\* a socket that was already closed was removed a second time while the
\* session had participants
C9_Witness ==
  /\ last.op = "disconnect" /\ RoleBefore = "none"
  /\ last.conn \notin pre.connected
  /\ pre.users # NoUsers

\* C10, as claimed: at the end of the scenario Bob's join yields an empty
\* roster and role student, also when Bob supplies the right secret.
C10_RejoinEmptyRosterStudent ==
  (scen.ph = "rejoined" /\ last.op = "join_room") =>
     /\ DOMAIN out[1].data.users = {}
     /\ out[1].data.role = "student"

\* C10, amended: at the end of the scenario (Alice was admin, Bob a student
\* announced to Alice, Alice's disconnect sent session_ended to Bob) Bob's join
\* yields a roster that holds Bob alone, with role admin if Bob supplies the
\* right secret and role student otherwise.
C10_RejoinAloneGranted ==
  /\ (scen.ph = "alice" /\ last.op = "join_room") => (admin = scen.a /\ users[scen.a].role = "admin"
                             /\ out[2].ev = "user_joined" /\ out[2].to = {})
  /\ (scen.ph = "bob" /\ last.op = "join_room") => (users[scen.b].role = "student"
                           /\ out[2].ev = "user_joined" /\ out[2].to = {scen.a}
                           /\ out[2].data.userId = scen.b)
  /\ (scen.ph = "ended" /\ last.op = "disconnect") => (out[1].ev = "session_ended" /\ scen.b \in out[1].to)
  /\ (scen.ph = "rejoined" /\ last.op = "join_room") =>
        /\ out[1].ev = "join_success" /\ out[1].to = {scen.b}
        /\ DOMAIN out[1].data.users = {scen.b}
        /\ out[1].data.role = IF last.code = AdminCode THEN "admin" ELSE "student"

\* Bob joined again with the right secret after Alice's disconnect
C10_Witness == scen.ph = "rejoined" /\ last.op = "join_room" /\ last.code = AdminCode

\* the last handler was one of the three signaling relays
IsRelay == last.op \in {"offer", "answer", "ice-candidate"}

\* the ids of the messages of a chat log
ChatIds(ch) == {ch[i].id : i \in DOMAIN ch}

\* sub is ch with some messages taken out, the others in their order
RECURSIVE IsSubseq(_, _)
IsSubseq(sub, ch) ==
  IF sub = <<>> THEN TRUE
  ELSE IF ch = <<>> THEN FALSE
  ELSE IF Head(sub) = Head(ch) THEN IsSubseq(Tail(sub), Tail(ch))
  ELSE IsSubseq(sub, Tail(ch))

\* C11: an event other than join_room (chat, delete, stroke, clear, toggle,
\* stream status, signaling, set_admin) from a socket with no record in the
\* roster changes nothing in the session and emits nothing to another socket.
C11_UnjoinedEventsIgnored ==
  (/\ last.op \notin {"listen", "connection", "join_room", "disconnect"}
   /\ RoleBefore = "none") =>
     /\ Session = SessionBefore
     /\ \A i \in DOMAIN out : out[i].to \subseteq {last.conn}

\* the claimer got exactly one response, and it reports success
GrantComplete ==
  /\ last.conn \in DOMAIN users
  /\ users[last.conn].role = "admin"
  /\ admin = last.conn
  /\ Cardinality({i \in DOMAIN out : out[i].ev \in {"admin_set", "join_success"}
                                      /\ out[i].to = {last.conn}}) = 1
  /\ ClaimGranted

\* C12: whenever a claim writes appState.admin the claimer has a record, the
\* record has role admin, appState.admin is the claimer and the claimer gets
\* exactly one response, reporting success; a set_admin that does not achieve
\* all of this leaves the session as it was.
C12_GrantIsComplete ==
  /\ (IsClaim /\ admin # pre.admin) => GrantComplete
  /\ (last.op = "set_admin" /\ ~GrantComplete) => Session = SessionBefore

\* C13: a signaling message reaches at most one socket, the one named in
\* `to`, carries the sender's id, is delivered only if `to` has a record in
\* the roster, and changes nothing in the session.
C13_RelayToRegisteredTarget ==
  IsRelay =>
     /\ Len(out) = 1
     /\ out[1].to \subseteq {last.to}
     /\ out[1].to # {} => last.to \in DOMAIN users
     /\ out[1].data.from = last.conn
     /\ Session = SessionBefore

\* C14: no two messages of the chat log have the same id, so that a
\* delete_message removes at most one message.
C14_UniqueMessageIds ==
  /\ \A i, j \in DOMAIN chat : i # j => chat[i].id # chat[j].id
  /\ last.op = "delete_message" => Len(pre.chat) - Len(chat) <= 1

\* C15: a stroke changes nothing in the session; it is emitted once, to the
\* room without its sender (so to every other participant), exactly when
\* drawing is enabled or the sender's record has role admin, and otherwise
\* nothing is emitted.
C15_StrokeForwardedIffAuthorized ==
  (last.op = "draw_data") =>
     /\ Session = SessionBefore
     /\ IF pre.drawingEnabled \/ RoleBefore = "admin"
        THEN /\ Len(out) = 1
             /\ out[1].ev = "draw_data"
             /\ (DOMAIN pre.users) \ {last.conn} \subseteq out[1].to
             /\ last.conn \notin out[1].to
             /\ out[1].data.userId = last.conn
        ELSE out = <<>>

\* the admin drew while drawing was disabled and another participant got it
C15_Witness ==
  /\ last.op = "draw_data" /\ RoleBefore = "admin"
  /\ ~pre.drawingEnabled
  /\ out # <<>> /\ out[1].to # {}

\* C16: drawingEnabled changes only by a toggle_draw of the admin (to the
\* requested value, announced by drawing_toggled) or by the reset on the
\* admin's disconnect (to true); toggle_draw and clear_canvas from a student
\* or from a socket without record change nothing and emit nothing.
C16_DrawingFlagAdminOnly ==
  /\ drawingEnabled # pre.drawingEnabled =>
        \/ last.op = "toggle_draw" /\ RoleBefore = "admin"
        \/ last.op = "disconnect" /\ RoleBefore = "admin" /\ drawingEnabled
  /\ (last.op = "toggle_draw" /\ RoleBefore = "admin") =>
        /\ drawingEnabled = last.enabled
        /\ Len(out) = 1 /\ out[1].ev = "drawing_toggled"
        /\ out[1].data.enabled = last.enabled
        /\ DOMAIN users \subseteq out[1].to
  /\ (last.op \in {"toggle_draw", "clear_canvas"} /\ RoleBefore # "admin") =>
        /\ Session = SessionBefore
        /\ out = <<>>

\* a student asked for the opposite of the current flag, in a session that
\* has an admin
C16_Witness ==
  /\ last.op = "toggle_draw" /\ RoleBefore = "student"
  /\ last.enabled # pre.drawingEnabled
  /\ Admins(users) # {}

\* C17: a delete_message of the admin that names an id no message has leaves
\* the chat as it was and emits nothing.
C17_AdminDeleteUnknownIdIsNoOp ==
  (/\ last.op = "delete_message" /\ RoleBefore = "admin"
   /\ last.messageId \notin ChatIds(pre.chat)) =>
     /\ chat = pre.chat
     /\ out = <<>>

\* C18: a chat_message of a participant puts exactly one message at the end
\* of the log and sends that message to the whole room, sender included; a
\* delete_message takes messages out and keeps the others in their order;
\* the reset empties the log; nothing else touches it.
C18_ChatAppendOrder ==
  /\ (last.op = "chat_message" /\ RoleBefore # "none") =>
        /\ Len(out) = 1 /\ out[1].ev = "new_message"
        /\ chat = Append(pre.chat, out[1].data)
        /\ out[1].data.userId = last.conn
        /\ DOMAIN pre.users \subseteq out[1].to
  /\ (last.op = "delete_message") =>
        /\ IsSubseq(chat, pre.chat)
        /\ \A i \in DOMAIN chat : RoleBefore = "admin" => chat[i].id # last.messageId
        /\ \A i \in DOMAIN pre.chat :
              (RoleBefore # "admin" \/ pre.chat[i].id # last.messageId)
                 => \E j \in DOMAIN chat : chat[j] = pre.chat[i]
  /\ (last.op = "disconnect" /\ RoleBefore = "admin") => chat = <<>>
  /\ (/\ last.op \notin {"chat_message", "delete_message"}
      /\ ~(last.op = "disconnect" /\ RoleBefore = "admin")) => chat = pre.chat

\* a participant sent a message into a log that held another message, with
\* a second participant in the room
C18_Witness ==
  /\ last.op = "chat_message" /\ RoleBefore # "none"
  /\ Len(chat) = 2 /\ chat[1] # chat[2]
  /\ Cardinality(DOMAIN pre.users) >= 2

\* C19: the disconnect of a participant with role student removes that record
\* alone, emits user_left once to the room (so to every remaining
\* participant) and nothing else, and leaves appState.admin, the other
\* records, the chat and drawingEnabled as they were.
C19_StudentDisconnectIsLocal ==
  (last.op = "disconnect" /\ RoleBefore = "student") =>
     /\ users = DelUser(pre.users, last.conn)
     /\ admin = pre.admin
     /\ chat = pre.chat
     /\ drawingEnabled = pre.drawingEnabled
     /\ Len(out) = 1
     /\ out[1].ev = "user_left"
     /\ out[1].data.userId = last.conn
     /\ DOMAIN users \subseteq out[1].to

\* a student who had sent a message left a session whose admin stayed
C19_Witness ==
  /\ last.op = "disconnect" /\ RoleBefore = "student"
  /\ Admins(users) # {}
  /\ \E i \in DOMAIN chat : chat[i].userId = last.conn
  /\ out # <<>> /\ out[1].to # {}

\* C20: a join_room from a socket that already has a record leaves the roster
\* as it was (name and role of that record included) and emits no
\* user_joined.
C20_RejoinChangesNothing ==
  (last.op = "join_room" /\ RoleBefore # "none") =>
     /\ users[last.conn].name = pre.users[last.conn].name
     /\ users[last.conn].role = pre.users[last.conn].role
     /\ DOMAIN users = DOMAIN pre.users
     /\ \A i \in DOMAIN out : out[i].ev # "user_joined"

\* C21: a join_room emits join_success to the joiner alone and then
\* user_joined, naming the joiner, to every other socket of the room (so to
\* every other participant) and not to the joiner; when the room the handler
\* found has no other socket, user_joined reaches no one.
C21_JoinedToOthersOnly ==
  (last.op = "join_room") =>
     /\ Len(out) = 2
     /\ out[1].ev = "join_success" /\ out[1].to = {last.conn}
     /\ out[2].ev = "user_joined" /\ out[2].data.userId = last.conn
     /\ out[2].to = pre.room \ {last.conn}
     /\ (DOMAIN pre.users) \ {last.conn} \subseteq out[2].to
     /\ last.conn \notin out[2].to
     /\ (pre.room \ {last.conn} = {}) => out[2].to = {}

\* a socket joined a room that held another participant
C21_Witness ==
  /\ last.op = "join_room"
  /\ last.conn \notin pre.room
  /\ (DOMAIN pre.users) \ {last.conn} # {}
  /\ out[2].to # {}

\* the events a handler sends to the room 'classroom' for its participants
RoomEvents == {"user_joined", "user_left", "new_admin", "user_stream_status",
               "new_message", "message_deleted", "draw_data", "clear_canvas",
               "drawing_toggled"}

\* C22: while the server runs, the members of the room 'classroom' are exactly the sockets with a
\* record in the roster, so that a chat, stroke, roster or drawing broadcast
\* reaches only sockets that have a record.
C22_RoomIsRoster ==
  running =>
  /\ room = DOMAIN users
  /\ \A i \in DOMAIN out : out[i].ev \in RoomEvents => out[i].to \subseteq DOMAIN users

\* the last handler processed a claim with the right secret that the claimer
\* was entitled to make: a join_room, or a set_admin from a participant
RightfulClaim ==
  /\ IsClaim /\ last.code = AdminCode
  /\ last.op = "set_admin" => last.conn \in DOMAIN pre.users

\* C23: a rightful claim that finds the roster without a participant of role
\* admin, or that finds appState.admin naming a connection that is no longer
\* open, is granted: the claimer is told so and its record has role admin.
C23_NoAdminLockout ==
  (/\ RightfulClaim
   /\ \/ Admins(pre.users) = {}
      \/ pre.admin \notin pre.connected) =>
     /\ ClaimGranted
     /\ users[last.conn].role = "admin"
     /\ admin = last.conn

\* C24: the join_success of the browser's join is heard by the listener of
\* Classroom, and once that event has arrived and the effect of Classroom
\* has run for the first time, the roster, the chat list and the drawing flag of Classroom have
\* been set from its payload (afterwards they follow the later events).
C24_ClassroomInitialisedFromSnapshot ==
  /\ (clast.op = "receive" /\ clast.ev = "join_success") => "Classroom" \in clast.heard
  /\ (/\ snap # NoSnap /\ view.mounted /\ view.effect
      /\ \/ clast.op = "effect" /\ clast.ev = "first"
         \/ clast.op = "receive" /\ clast.ev = "join_success") =>
        /\ view.users = snap.users
        /\ view.chat = snap.chat
        /\ view.drawingEnabled = snap.drawingEnabled

====
